---- MODULE Spec2Model ----
(***************************************************************************)
(* Winternitz one-time signatures (package winternitz, signature.go).      *)
(*                                                                         *)
(* The two external primitives are modelled symbolically:                  *)
(*   - blake2b.Sum256 on a 32-byte block is an injective, cycle-free       *)
(*     function: a block is the pair of the value it was first derived     *)
(*     from (root) and the number of hash applications since (depth);      *)
(*     on the 1088-byte list it is an injective constructor; on a message  *)
(*     it is a fixed deterministic byte mixing (Sum256Msg).                *)
(*   - chacha20prng.New(sk, 0).Read(y) yields 34 blocks that depend on sk  *)
(*     and the block position only.                                        *)
(* Arrays are 1-indexed here and 0-indexed in the source.                  *)
(***************************************************************************)
EXTENDS Integers, Sequences, FiniteSets, TLC

\* ---------------------------------------------------------------- sizes
KeyLen == 32
HashLen == 32
VecLen == 34
ChainLen == 256
ByteMax == 255
ByteMod == 256
Uint16Mod == 65536

\* ---------------------------------------------------------------- bounds
NumExtraMsgs == 0
MaxCalls == 2
\* loops are evaluated Stride iterations at a time (evaluation depth only)
Stride == 16

VARIABLES
    phase,      \* position of the caller: start, keyed, failed, signed, verified
    sk,         \* *SecretKey returned by GenerateKey
    pk,         \* *PublicKey returned by GenerateKey ([nil, val])
    err,        \* error returned by GenerateKey
    nread,      \* bytes the reader delivered to GenerateKey
    message,    \* message given to Sign
    sig,        \* *Signature held by the caller (34 blocks)
    signRun,    \* per position, Sign's loop exit: block, counter, hash applications
    tampered,   \* whether the caller's signature was altered after Sign
    vmessage,   \* message given to Verify
    ok,         \* result of Verify
    verifyRun,  \* per position, Verify's loop exit: block, hash applications
    ckPos,      \* checksummedMessageHash: digest bytes added to cksum so far
    cksum,      \* checksummedMessageHash: the uint16 accumulator
    ckExact,    \* the same sum over the integers
    ckOut,      \* the two bytes PutUint16 wrote (<<>> before)
    digestA,    \* a message hash
    digestB,    \* another message hash
    vecA,       \* H(m)|C of digestA (<<>> before)
    vecB,       \* H(m)|C of digestB (<<>> before)
    calls,      \* concurrent calls: number of calls begun
    pc,         \* per thread: idle, sign, verify, done
    pos,        \* per thread: elements of y processed by the running call
    mh,         \* per thread: the running call's messageHash
    ybuf,       \* per thread: address of the running call's y
    heap,       \* arrays by address; SigAddr holds *sig
    res,        \* per thread: what the finished call returned
    overlapped, \* whether a call began while another was running
    seqSig,     \* Sign(sk, message) run alone
    seqOk       \* Verify(pk, message, sig) run alone

callVars == <<phase, sk, pk, err, nread, message, sig, signRun, tampered,
              vmessage, ok, verifyRun>>
ckVars == <<ckPos, cksum, ckExact, ckOut>>
encVars == <<digestA, digestB, vecA, vecB>>
concVars == <<calls, pc, pos, mh, ybuf, heap, res, overlapped, seqSig, seqOk>>
vars == <<callVars, ckVars, encVars, concVars>>

Positions == 1..VecLen
Bytes == 0..ByteMax

\* ---------------------------------------------------------------- primitives
\* blake2b.Sum256 on a 32-byte block
Sum256(h) == [root |-> h.root, depth |-> h.depth + 1]

\* blake2b.Sum256 on the 1088-byte hash list
Sum256Cat(y) == [cat |-> y]

RECURSIVE Mix(_, _, _)
Mix(m, i, x) == IF i = 0 THEN Len(m) % ByteMod
                ELSE (Mix(m, i - 1, x) * x + m[i]) % ByteMod

\* blake2b.Sum256 on a message: 32 bytes, a function of the message alone
Sum256Msg(m) == [k \in 1..HashLen |-> Mix(m, Len(m), k)]

\* chacha20prng.New(sk[:], 0).Read(y[:])
Expand(key) == [i \in Positions |-> [root |-> <<key, i>>, depth |-> 0]]

\* ---------------------------------------------------------------- GenerateKey
ZeroKey == [k \in 1..KeyLen |-> 0]
NilKey == [nil |-> TRUE, val |-> Sum256Cat(<<>>)]

\* rand.Read(sk[:]) on a zeroed key: the first rand.n bytes are written
ReadInto(rand) == [k \in 1..KeyLen |-> IF k <= rand.n THEN rand.data[k] ELSE 0]

GenLoopCond(i) == i < ChainLen

GenLoopBody(st) == [h |-> Sum256(st.h), i |-> st.i + 1]

RECURSIVE GenLoopRun(_, _)
GenLoopRun(st, fuel) ==
    IF fuel > 0 /\ GenLoopCond(st.i) THEN GenLoopRun(GenLoopBody(st), fuel - 1) ELSE st

\* for i := 0; i < 256; i++ { h = blake2b.Sum256(h[:]) }
RECURSIVE GenLoop(_)
GenLoop(st) == IF GenLoopCond(st.i) THEN GenLoop(GenLoopRun(st, Stride)) ELSE st

HashList(key) ==
    LET y == Expand(key)
    IN  [i \in Positions |-> GenLoop([h |-> y[i], i |-> 0]).h]

GenerateKey(rand) ==
    LET key == ReadInto(rand)
    IN  IF rand.err
        THEN [pk |-> NilKey, sk |-> key, err |-> "read"]
        ELSE [pk |-> [nil |-> FALSE, val |-> Sum256Cat(HashList(key))],
              sk |-> key, err |-> "nil"]

\* ---------------------------------------------------------------- checksummedMessageHash
\* the accumulator declared as a byte
CksumAddByte(acc, b) == (acc + (ByteMax - b)) % ByteMod

\* the byte itself added instead of its distance to 255
CksumAddRaw(acc, b) == (acc + b) % Uint16Mod

CksumAdd(acc, b) == (acc + (ByteMax - b)) % Uint16Mod

RECURSIVE CksumLoop(_, _)
CksumLoop(messageHash, k) ==
    IF k = 0 THEN 0 ELSE CksumAdd(CksumLoop(messageHash, k - 1), messageHash[k])

\* binary.LittleEndian.PutUint16
PutUint16(v) == <<v % ByteMod, (v \div ByteMod) % ByteMod>>

HashChecksum(messageHash) ==
    messageHash \o PutUint16(CksumLoop(messageHash, Len(messageHash)))

\* the hash taken of an empty slice instead of m
checksummedMessageHashEmpty(m) == HashChecksum(Sum256Msg(SubSeq(m, 1, 0)))

checksummedMessageHash(m) == HashChecksum(Sum256Msg(m))

\* ---------------------------------------------------------------- Sign
\* the counter compared one step early
SignLoopCondEarly(j, b) == j + 1 < b

SignLoopCond(j, b) == j < b

\* one iteration; j is a byte, n counts the hash applications
SignLoopBody(st) == [h |-> Sum256(st.h), j |-> (st.j + 1) % ByteMod, n |-> st.n + 1]

RECURSIVE SignLoopRun(_, _, _)
SignLoopRun(st, b, fuel) ==
    IF fuel > 0 /\ SignLoopCond(st.j, b)
    THEN SignLoopRun(SignLoopBody(st), b, fuel - 1)
    ELSE st

\* for j := byte(0); j < b; j++ { h = blake2b.Sum256(h[:]) }
RECURSIVE SignLoop(_, _)
SignLoop(st, b) ==
    IF SignLoopCond(st.j, b) THEN SignLoop(SignLoopRun(st, b, Stride), b) ELSE st

SignPosition(y, i, b) == SignLoop([h |-> y[i], j |-> 0, n |-> 0], b)

SignTrace(key, m) ==
    LET messageHash == checksummedMessageHash(m)
        y == Expand(key)
    IN  [i \in Positions |-> SignPosition(y, i, messageHash[i])]

Blocks(trace) == [i \in Positions |-> trace[i].h]

Sign(key, m) == Blocks(SignTrace(key, m))

\* ---------------------------------------------------------------- Verify
\* the loop stopped at 1 instead of 0
VerifyLoopCondStrict(j) == j > 0

VerifyLoopCond(j) == j >= 0

\* one iteration; j is an int, n counts the hash applications
VerifyLoopBody(st) == [h |-> Sum256(st.h), j |-> st.j - 1, n |-> st.n + 1]

RECURSIVE VerifyLoopRun(_, _)
VerifyLoopRun(st, fuel) ==
    IF fuel > 0 /\ VerifyLoopCond(st.j)
    THEN VerifyLoopRun(VerifyLoopBody(st), fuel - 1)
    ELSE st

\* for j := 255 - int(b); j >= 0; j-- { h = blake2b.Sum256(h[:]) }
RECURSIVE VerifyLoop(_)
VerifyLoop(st) == IF VerifyLoopCond(st.j) THEN VerifyLoop(VerifyLoopRun(st, Stride)) ELSE st

VerifyPosition(y, i, b) == VerifyLoop([h |-> y[i], j |-> ByteMax - b, n |-> 0])

VerifyTrace(m, s) ==
    LET messageHash == checksummedMessageHash(m)
    IN  [i \in Positions |-> VerifyPosition(s, i, messageHash[i])]

\* only the part of the hash list that covers the message hash compared
FingerprintEqualDigestOnly(pubkey, y) ==
    SubSeq(pubkey.cat, 1, HashLen) = SubSeq(y, 1, HashLen)

\* bytes.Equal(pk[:], fingerprint[:])
FingerprintEqual(pubkey, y) == pubkey = Sum256Cat(y)

Verify(pubkey, m, s) == FingerprintEqual(pubkey, Blocks(VerifyTrace(m, s)))

\* ---------------------------------------------------------------- inputs
\* readers: the bytes of the stream, how many of them Read delivers, and
\* whether Read reports an error
EntropyStream == [k \in 1..KeyLen |-> k]
ReadCounts == {0, KeyLen \div 2, KeyLen}
Readers == {r \in [data : {EntropyStream}, n : ReadCounts, err : BOOLEAN] :
                r.n = 0 => r.err}

MessageAscii == <<109, 101, 115, 115, 97, 103, 101>>
Messages == {<<>>, <<ByteMax - 1>>, MessageAscii} \cup {<<j, 1>> : j \in 1..NumExtraMsgs}

ForeignKey == [k \in 1..KeyLen |-> ByteMax]

Prev(d) == IF d > 0 THEN d - 1 ELSE 0

\* values an altered signature element can take: further along the same chain,
\* earlier on the same chain, or a value of another key's chain
EdgePositions == {1, HashLen, HashLen + 1, VecLen}

TamperBlocks(blk, i) ==
    ({[root |-> blk.root, depth |-> blk.depth + 1]}
     \cup (IF i \in EdgePositions
           THEN {[root |-> blk.root, depth |-> Prev(blk.depth)],
                 [root |-> <<ForeignKey, i>>, depth |-> blk.depth]}
           ELSE {})) \ {blk}

TamperWhole(s) ==
    {[i \in Positions |-> [root |-> s[i].root, depth |-> s[i].depth + 1]],
     [i \in Positions |-> [root |-> <<ForeignKey, i>>, depth |-> s[i].depth]]}

NoTrace == <<>>

\* ---------------------------------------------------------------- caller
CallIdle ==
    /\ sk = ZeroKey
    /\ pk = NilKey
    /\ err = "nil"
    /\ nread = 0
    /\ message = <<>>
    /\ sig = <<>>
    /\ signRun = NoTrace
    /\ tampered = FALSE
    /\ vmessage = <<>>
    /\ ok = FALSE
    /\ verifyRun = NoTrace

CkIdle == ckPos = 0 /\ cksum = 0 /\ ckExact = 0 /\ ckOut = <<>>

EncIdle == digestA = <<>> /\ digestB = <<>> /\ vecA = <<>> /\ vecB = <<>>

Threads == {1, 2}
SigAddr == 0
Addrs == SigAddr..MaxCalls
NoResult == [kind |-> "none", ok |-> FALSE, ptr |-> SigAddr]

ConcIdle ==
    /\ calls = 0
    /\ pc = [t \in Threads |-> "idle"]
    /\ pos = [t \in Threads |-> 0]
    /\ mh = [t \in Threads |-> <<>>]
    /\ ybuf = [t \in Threads |-> SigAddr]
    /\ heap = [a \in Addrs |-> <<>>]
    /\ res = [t \in Threads |-> NoResult]
    /\ overlapped = FALSE
    /\ seqSig = <<>>
    /\ seqOk = FALSE

Init == phase = "start" /\ CallIdle /\ CkIdle /\ EncIdle /\ ConcIdle

CallGenerateKey ==
    /\ phase = "start"
    /\ \E rand \in Readers :
        LET r == GenerateKey(rand)
        IN  /\ sk' = r.sk
            /\ pk' = r.pk
            /\ err' = r.err
            /\ nread' = rand.n
            /\ phase' = IF r.err = "nil" THEN "keyed" ELSE "failed"
    /\ UNCHANGED <<message, sig, signRun, tampered, vmessage, ok, verifyRun, ckVars, encVars, concVars>>

CallSign ==
    /\ phase = "keyed"
    /\ \E m \in Messages :
        LET trace == SignTrace(sk, m)
        IN  /\ message' = m
            /\ sig' = Blocks(trace)
            /\ signRun' = trace
    /\ phase' = "signed"
    /\ UNCHANGED <<sk, pk, err, nread, tampered, vmessage, ok, verifyRun, ckVars, encVars, concVars>>

TamperElement ==
    /\ phase = "signed"
    /\ ~tampered
    /\ \E i \in Positions : \E blk \in TamperBlocks(sig[i], i) :
        sig' = [sig EXCEPT ![i] = blk]
    /\ tampered' = TRUE
    /\ UNCHANGED <<phase, sk, pk, err, nread, message, signRun, vmessage, ok, verifyRun, ckVars, encVars, concVars>>

TamperAll ==
    /\ phase = "signed"
    /\ ~tampered
    /\ \E s \in TamperWhole(sig) : sig' = s
    /\ tampered' = TRUE
    /\ UNCHANGED <<phase, sk, pk, err, nread, message, signRun, vmessage, ok, verifyRun, ckVars, encVars, concVars>>

CallVerify ==
    /\ phase = "signed"
    /\ \E m \in Messages :
        LET trace == VerifyTrace(m, sig)
        IN  /\ vmessage' = m
            /\ ok' = FingerprintEqual(pk.val, Blocks(trace))
            /\ verifyRun' = trace
    /\ phase' = "verified"
    /\ UNCHANGED <<sk, pk, err, nread, message, sig, signRun, tampered, ckVars, encVars, concVars>>

Next == CallGenerateKey \/ CallSign \/ TamperElement \/ TamperAll \/ CallVerify

Spec == Init /\ [][Next]_vars

\* ---------------------------------------------------------------- properties of the calls
\* the 34-byte vector of a message, from the message hash and its checksum
Vector(m) == HashChecksum(Sum256Msg(m))

ChainBlock(key, i, d) == [root |-> <<key, i>>, depth |-> d]

\* C1: a signature made by Sign with sk verifies under the public key that
\* GenerateKey derived from sk, for every message, the empty one included.
C1_SignThenVerify ==
    (phase = "verified" /\ ~tampered /\ vmessage = message) => ok

C1_Witness ==
    /\ phase = "verified" /\ ~tampered
    /\ vmessage = <<>> /\ message = <<>>
    /\ nread = KeyLen
    /\ ok

\* C2: the public key is the hash of the 34 expanded blocks each hashed
\* exactly 255 times.
C2_PublicKeyAt255 ==
    (phase # "start" /\ err = "nil") =>
        pk.val = Sum256Cat([i \in Positions |-> ChainBlock(sk, i, ByteMax)])

\* C3: GenerateKey fails, with no public key, when the reader reports an error
\* or delivers fewer than 32 bytes; it does not fail when 32 bytes are delivered.
C3_EntropyFailure ==
    phase # "start" =>
        /\ (nread < KeyLen => (err # "nil" /\ pk.nil))
        /\ (nread = KeyLen => err = "nil")

\* C4: a signature that differs from Sign(sk, m) in at least one of its 34
\* elements is rejected by Verify for m, as the value false.
C4_TamperedRejected ==
    (phase = "verified" /\ sig # Sign(sk, vmessage)) => ok = FALSE

C4_Witness ==
    /\ phase = "verified" /\ tampered
    /\ vmessage = message
    /\ sig # Blocks(signRun)
    /\ ok = FALSE

\* C5: the signature of m1 is rejected for every m2 whose 34-byte vector
\* differs from that of m1.
C5_OtherMessageRejected ==
    (phase = "verified" /\ ~tampered /\ Vector(vmessage) # Vector(message)) => ok = FALSE

C5_Witness ==
    /\ phase = "verified" /\ ~tampered
    /\ Vector(vmessage) # Vector(message)
    /\ ok = FALSE

\* C7: Verify applies the hash to element i exactly 255 - vector[i] times.
C7_VerifyCount ==
    phase = "verified" =>
        \A i \in Positions : verifyRun[i].n = ByteMax - Vector(vmessage)[i]

\* C8: Sign applies the hash to expanded block i exactly vector[i] times, for
\* every byte value including 0 and 255, and its byte counter never wraps.
C8_SignCount ==
    phase \in {"signed", "verified"} =>
        \A i \in Positions :
            /\ signRun[i].h = ChainBlock(sk, i, Vector(message)[i])
            /\ signRun[i].n = Vector(message)[i]
            /\ signRun[i].j = signRun[i].n
            /\ (~tampered => sig[i] = signRun[i].h)

C8_Witness ==
    /\ phase = "signed" /\ ~tampered
    /\ \E i \in Positions : Vector(message)[i] = ByteMax /\ sig[i].depth = ByteMax
    /\ \E i \in Positions : Vector(message)[i] = 0 /\ sig[i] = Expand(sk)[i]

\* ---------------------------------------------------------------- checksum, step by step
\* digest byte values tried at each step of the accumulation
SampleBytes == {0, 1, 2, ByteMax \div 2, ByteMax \div 2 + 1, ByteMax - 2, ByteMax - 1, ByteMax}

InitCk == phase = "cksum" /\ CallIdle /\ CkIdle /\ EncIdle /\ ConcIdle

\* cksum += 255 - uint16(b), for the next byte b of messageHash
CkStep ==
    /\ phase = "cksum"
    /\ ckPos < HashLen
    /\ \E b \in SampleBytes :
        /\ cksum' = CksumAdd(cksum, b)
        /\ ckExact' = ckExact + (ByteMax - b)
    /\ ckPos' = ckPos + 1
    /\ UNCHANGED <<phase, ckOut, callVars, encVars, concVars>>

\* binary.LittleEndian.PutUint16(messageHashChecksum[32:], cksum)
CkPut ==
    /\ phase = "cksum"
    /\ ckPos = HashLen
    /\ ckOut = <<>>
    /\ ckOut' = PutUint16(cksum)
    /\ UNCHANGED <<phase, ckPos, cksum, ckExact, callVars, encVars, concVars>>

NextCk == CkStep \/ CkPut

SpecCk == InitCk /\ [][NextCk]_vars

\* C6: the uint16 accumulator equals the exact sum of 255 - b at every step,
\* stays within [0, 8160], and the two bytes written are its little-endian form.
C6_ChecksumExact ==
    phase = "cksum" =>
        /\ cksum = ckExact
        /\ ckExact >= 0 /\ ckExact <= HashLen * ByteMax
        /\ (ckOut # <<>> =>
                /\ ckOut[1] \in Bytes /\ ckOut[2] \in Bytes
                /\ ckOut[1] + ByteMod * ckOut[2] = ckExact)

C6_Witness ==
    /\ phase = "cksum"
    /\ ckOut # <<>>
    /\ ckExact = HashLen * ByteMax
    /\ ckOut[2] > 0

\* ---------------------------------------------------------------- encoding of two digests
Pattern(n, a, b) == [k \in 1..HashLen |-> IF k <= n THEN a ELSE b]
PatternBytes == {0, ByteMax \div 2, ByteMax}
Digests == {Pattern(n, a, b) : n \in 0..HashLen, a \in PatternBytes, b \in PatternBytes}

InitEnc ==
    /\ phase = "encode"
    /\ CallIdle /\ CkIdle /\ ConcIdle
    /\ digestA \in Digests
    /\ digestB \in Digests
    /\ vecA = <<>>
    /\ vecB = <<>>

EncodeBoth ==
    /\ phase = "encode"
    /\ vecA = <<>>
    /\ vecA' = HashChecksum(digestA)
    /\ vecB' = HashChecksum(digestB)
    /\ UNCHANGED <<phase, digestA, digestB, callVars, ckVars, concVars>>

NextEnc == EncodeBoth

SpecEnc == InitEnc /\ [][NextEnc]_vars

Dominates(x, y) == \A k \in 1..HashLen : x[k] >= y[k]

\* C9: the vectors of two distinct message hashes are incomparable position by
\* position; when the second hash is nowhere smaller, one of its two checksum
\* bytes is smaller.
C9_Incomparable ==
    (phase = "encode" /\ vecA # <<>> /\ digestA # digestB) =>
        /\ \E i \in Positions : vecB[i] < vecA[i]
        /\ \E j \in Positions : vecB[j] > vecA[j]
        /\ (Dominates(digestB, digestA) =>
                (vecB[HashLen + 1] < vecA[HashLen + 1] \/ vecB[VecLen] < vecA[VecLen]))

\* the second hash is nowhere smaller and its low checksum byte is larger
C9_Witness ==
    /\ phase = "encode" /\ vecA # <<>>
    /\ digestA # digestB
    /\ Dominates(digestB, digestA)
    /\ vecB[HashLen + 1] > vecA[HashLen + 1]
    /\ vecB[VecLen] < vecA[VecLen]

\* ---------------------------------------------------------------- concurrent calls
\* Two threads call Sign and Verify on the same sk, pk, message and sig. A call
\* takes one step to set up, one step per element of y, and one step to return.
FullReader == [data |-> EntropyStream, n |-> KeyLen, err |-> FALSE]

InitConc ==
    /\ phase = "conc"
    /\ CkIdle /\ EncIdle
    /\ sk = GenerateKey(FullReader).sk
    /\ pk = GenerateKey(FullReader).pk
    /\ err = "nil"
    /\ nread = KeyLen
    /\ message = MessageAscii
    /\ sig \in {Sign(sk, message)} \cup {[Sign(sk, message) EXCEPT ![i] = Sum256(@)] : i \in {1}}
    /\ signRun = NoTrace /\ tampered = FALSE
    /\ vmessage = <<>> /\ ok = FALSE /\ verifyRun = NoTrace
    /\ calls = 0
    /\ pc = [t \in Threads |-> "idle"]
    /\ pos = [t \in Threads |-> 0]
    /\ mh = [t \in Threads |-> <<>>]
    /\ ybuf = [t \in Threads |-> SigAddr]
    /\ heap = [a \in Addrs |-> IF a = SigAddr THEN sig ELSE <<>>]
    /\ res = [t \in Threads |-> NoResult]
    /\ overlapped = FALSE
    /\ seqSig = Sign(sk, message)
    /\ seqOk = Verify(pk.val, message, sig)

Running(t) == pc[t] \in {"sign", "verify"}

\* the array a thread's previous call left behind is dropped when it calls again
Release(h, t) == IF ybuf[t] = SigAddr THEN h ELSE [h EXCEPT ![ybuf[t]] = <<>>]

Begin(t, kind, addr, content) ==
    /\ phase = "conc"
    /\ ~Running(t)
    /\ calls < MaxCalls
    /\ calls' = calls + 1
    /\ mh' = [mh EXCEPT ![t] = checksummedMessageHash(message)]
    /\ heap' = [Release(heap, t) EXCEPT ![addr] = content]
    /\ ybuf' = [ybuf EXCEPT ![t] = addr]
    /\ pos' = [pos EXCEPT ![t] = 0]
    /\ pc' = [pc EXCEPT ![t] = kind]
    /\ res' = [res EXCEPT ![t] = NoResult]
    /\ overlapped' = (overlapped \/ \E u \in Threads \ {t} : Running(u))
    /\ UNCHANGED <<callVars, ckVars, encVars, seqSig, seqOk>>

\* var y [len(messageHash) * 32]byte; chacha20prng.New(sk[:], 0).Read(y[:])
SignBegin(t) == Begin(t, "sign", calls + 1, Expand(sk))

\* the array Verify works on is the parameter itself
VerifyBufferAlias(fresh) == SigAddr

\* var y [len(messageHash) * 32]byte = *sig: an array of its own
VerifyBuffer(fresh) == fresh

VerifyBegin(t) == Begin(t, "verify", VerifyBuffer(calls + 1), heap[SigAddr])

Step(t, kind, h) ==
    /\ phase = "conc"
    /\ pc[t] = kind
    /\ pos[t] < VecLen
    /\ heap' = [heap EXCEPT ![ybuf[t]][pos[t] + 1] = h]
    /\ pos' = [pos EXCEPT ![t] = @ + 1]
    /\ UNCHANGED <<calls, pc, mh, ybuf, res, overlapped, seqSig, seqOk,
                   callVars, ckVars, encVars>>

SignStep(t) ==
    Step(t, "sign", SignPosition(heap[ybuf[t]], pos[t] + 1, mh[t][pos[t] + 1]).h)

VerifyStep(t) ==
    Step(t, "verify", VerifyPosition(heap[ybuf[t]], pos[t] + 1, mh[t][pos[t] + 1]).h)

\* return (*Signature)(&y)
SignReturn(t) ==
    /\ phase = "conc"
    /\ pc[t] = "sign"
    /\ pos[t] = VecLen
    /\ res' = [res EXCEPT ![t] = [kind |-> "sig", ok |-> FALSE, ptr |-> ybuf[t]]]
    /\ pc' = [pc EXCEPT ![t] = "done"]
    /\ UNCHANGED <<calls, pos, mh, ybuf, heap, overlapped, seqSig, seqOk,
                   callVars, ckVars, encVars>>

\* return bytes.Equal(pk[:], fingerprint[:]); y goes out of scope
VerifyReturn(t) ==
    /\ phase = "conc"
    /\ pc[t] = "verify"
    /\ pos[t] = VecLen
    /\ res' = [res EXCEPT ![t] = [kind |-> "bool",
                                  ok |-> FingerprintEqual(pk.val, heap[ybuf[t]]),
                                  ptr |-> SigAddr]]
    /\ heap' = Release(heap, t)
    /\ ybuf' = [ybuf EXCEPT ![t] = SigAddr]
    /\ pc' = [pc EXCEPT ![t] = "done"]
    /\ UNCHANGED <<calls, pos, mh, overlapped, seqSig, seqOk, callVars, ckVars, encVars>>

NextConc ==
    \E t \in Threads :
        \/ SignBegin(t) \/ SignStep(t) \/ SignReturn(t)
        \/ VerifyBegin(t) \/ VerifyStep(t) \/ VerifyReturn(t)

SpecConc == InitConc /\ [][NextConc]_vars

\* C10: concurrent calls leave *sig as it was, and every finished call returns
\* what it returns when run alone: Verify its verdict, Sign a new array that
\* holds Sign(sk, message) and that no other call works on.
C10_NoInterference ==
    phase = "conc" =>
        /\ heap[SigAddr] = sig
        /\ \A t \in Threads :
            /\ (res[t].kind = "bool" => res[t].ok = seqOk)
            /\ (res[t].kind = "sig" =>
                    /\ res[t].ptr # SigAddr
                    /\ heap[res[t].ptr] = seqSig
                    /\ \A u \in Threads \ {t} : ybuf[u] # res[t].ptr)

C10_Witness ==
    /\ phase = "conc"
    /\ overlapped
    /\ \E t \in Threads : res[t].kind = "bool" /\ res[t].ok
    /\ \E t \in Threads : res[t].kind = "sig" /\ heap[res[t].ptr] = seqSig

====
